---------------------------- MODULE Spec2Model ----------------------------
(***************************************************************************)
(* The Hill cipher subsystem of the crypto tool: mod_inverse               *)
(* (ciphers/affine.py), text_to_numbers, numbers_to_text, hill_encrypt,    *)
(* hill_decrypt (ciphers/hill.py) and hill_cracker                         *)
(* (crackers/hill_cracker.py).                                             *)
(*                                                                         *)
(* Every function of the subsystem is pure, so the state machine is the    *)
(* console's view of it: one call is made with inputs drawn from bounded   *)
(* sets and the state records the call and its outcome.                    *)
(*                                                                         *)
(* A text is a sequence of code points (ord), a matrix is a pair of rows,  *)
(* Python's 0-based m[i][j] being m[i+1][j+1] here.                        *)
(***************************************************************************)
EXTENDS Integers, Sequences, FiniteSets, TLC

VARIABLES
    op,      \* the call made: "idle" before any call, else the function's name
    arg,     \* mod_inverse's argument a
    text,    \* the text argument (the plaintext for hill_cracker)
    text2,   \* hill_cracker's ciphertext argument, or the text given to the
             \* second call of a round trip
    key,     \* the key_matrix argument
    out      \* the outcome: [kind, val], kind "ok" or the error raised

vars == <<op, arg, text, text2, key, out>>

---------------------------------------------------------------------------
(* Bounds of the model. *)

\* mod_inverse is called with a in -MaxAbsA .. MaxAbsA
MaxAbsA == 80

\* texts given to hill_encrypt / hill_decrypt have at most MaxLen characters
MaxLen == 3

\* hill_cracker's texts: at most 4 + MaxTail characters
MaxTail == 2

---------------------------------------------------------------------------
(* Python primitives. *)

\* Python's None, as returned by mod_inverse: a value that is no residue and
\* that no arithmetic of the program produces.
None == -1

\* mutant of PyMod: the remainder of a division that truncates toward zero,
\* which is negative for a negative a
PyMod_truncated(a, m) == IF a >= 0 THEN a % m ELSE -((-a) % m)

\* Python's a % m for m > 0: the result has the sign of m, so it lies in
\* [0, m) for every integer a.  TLA+'s % is the same function for m > 0.
PyMod(a, m) == a % m

\* An outcome of a call: a returned value, or the error raised (no value).
Ok(v) == [kind |-> "ok", val |-> v]
Raise(e) == [kind |-> e, val |-> <<>>]

\* mutant of Falsy: the test is `x == 0`, which None does not pass
Falsy_zero_only(x) == x = 0

\* Python's `not x` for x an int or None
Falsy(x) == x = None \/ x = 0

RECURSIVE GCD(_, _)
GCD(a, b) == IF b = 0 THEN a ELSE GCD(b, a % b)

---------------------------------------------------------------------------
(* ciphers/affine.py *)

\* mutant of mod_inverse_loop: the loop stops one candidate early
RECURSIVE mod_inverse_loop_short(_, _, _)
mod_inverse_loop_short(a, m, i) ==
    IF i >= m - 1 THEN None
    ELSE IF PyMod(a * i, m) = 1 THEN i
    ELSE mod_inverse_loop_short(a, m, i + 1)

\* the loop `for i in range(1, m): if (a * i) % m == 1: return i`, from i on,
\* and the `return None` after it
RECURSIVE mod_inverse_loop(_, _, _)
mod_inverse_loop(a, m, i) ==
    IF i >= m THEN None
    ELSE IF PyMod(a * i, m) = 1 THEN i
    ELSE mod_inverse_loop(a, m, i + 1)

mod_inverse(a, m) ==
    LET a0 == PyMod(a, m)          \* a = a % m
    IN  mod_inverse_loop(a0, m, 1)

---------------------------------------------------------------------------
(* ciphers/hill.py *)

\* str.upper() on one character, for the characters the model draws: ASCII and
\* the Latin-1 letter e-acute (233), whose upper case is 201
str_upper(c) ==
    IF c \in 97..122 THEN c - 32
    ELSE IF c = 233 THEN 201
    ELSE c

\* str.isalpha() on one character, for the same characters
str_isalpha(c) == c \in 65..90 \/ c \in 97..122 \/ c \in {201, 233}

\* text = text.upper(); [ord(c) - 65 for c in text if c.isalpha()]
text_to_numbers(t) ==
    LET upper == [k \in 1..Len(t) |-> str_upper(t[k])]
        kept  == SelectSeq(upper, str_isalpha)
    IN  [k \in 1..Len(kept) |-> kept[k] - 65]

\* "".join(chr(n + 65) for n in nums)
numbers_to_text(nums) == [k \in 1..Len(nums) |-> nums[k] + 65]

\* one digraph: matrix * vec mod 26 (hill_encrypt's c1, c2; hill_decrypt's p1, p2)
digraph_product(matrix, vec) ==
    << PyMod(matrix[1][1] * vec[1] + matrix[1][2] * vec[2], 26),
       PyMod(matrix[2][1] * vec[1] + matrix[2][2] * vec[2], 26) >>

\* the loop `for i in range(0, len(nums), 2)` of hill_encrypt and of
\* hill_decrypt, from the 0-based index i on, extending result
RECURSIVE digraph_loop(_, _, _, _)
digraph_loop(nums, matrix, i, result) ==
    IF i >= Len(nums) THEN result
    ELSE LET vec == <<nums[i + 1], nums[i + 2]>>
         IN  digraph_loop(nums, matrix, i + 2,
                          result \o digraph_product(matrix, vec))

\* mutant of pad_odd: the padding is 24, the 1-based place of 'X'
pad_odd_24(nums) == IF PyMod(Len(nums), 2) = 1 THEN Append(nums, 24) ELSE nums

\* step 2 of hill_encrypt: nums.append(23) when len(nums) is odd
pad_odd(nums) == IF PyMod(Len(nums), 2) = 1 THEN Append(nums, 23) ELSE nums

hill_encrypt(t, key_matrix) ==
    LET nums   == pad_odd(text_to_numbers(t))
        result == digraph_loop(nums, key_matrix, 0, <<>>)
    IN  Ok(numbers_to_text(result))

\* mutant of determinant: the product of the off-diagonal is left out
determinant_diagonal(m) == PyMod(m[1][1] * m[2][2], 26)

\* det = (a*d - b*c) % 26 of [[a,b],[c,d]]
determinant(m) == PyMod(m[1][1] * m[2][2] - m[1][2] * m[2][1], 26)

\* mutant of adjugate_inverse: the remainder truncates toward zero, so a
\* negated entry gives a negative value
adjugate_inverse_truncated(m, inv_det) ==
    << << PyMod_truncated(m[2][2] * inv_det, 26),
          PyMod_truncated((-m[1][2]) * inv_det, 26) >>,
       << PyMod_truncated((-m[2][1]) * inv_det, 26),
          PyMod_truncated(m[1][1] * inv_det, 26) >> >>

\* mutant of adjugate_inverse: the off-diagonal entries are not negated
adjugate_inverse_not_negated(m, inv_det) ==
    << << PyMod(m[2][2] * inv_det, 26), PyMod(m[1][2] * inv_det, 26) >>,
       << PyMod(m[2][1] * inv_det, 26), PyMod(m[1][1] * inv_det, 26) >> >>

\* inverse matrix = inv_det * adjugate mod 26, as written in hill_decrypt and
\* again in hill_cracker
adjugate_inverse(m, inv_det) ==
    << << PyMod(m[2][2] * inv_det, 26),    PyMod((-m[1][2]) * inv_det, 26) >>,
       << PyMod((-m[2][1]) * inv_det, 26), PyMod(m[1][1] * inv_det, 26) >> >>

\* mutant of hill_decrypt: the length of the text is checked first
hill_decrypt_length_first(t, key_matrix) ==
    LET nums    == text_to_numbers(t)
        det     == PyMod(key_matrix[1][1] * key_matrix[2][2]
                         - key_matrix[1][2] * key_matrix[2][1], 26)
        inv_det == mod_inverse(det, 26)
    IN  IF PyMod(Len(nums), 2) # 0 THEN Raise("InvalidLength")
        ELSE IF Falsy(inv_det) THEN Raise("NotInvertible")
        ELSE Ok(numbers_to_text(digraph_loop(nums,
                    << << PyMod(key_matrix[2][2] * inv_det, 26),
                          PyMod((-key_matrix[1][2]) * inv_det, 26) >>,
                       << PyMod((-key_matrix[2][1]) * inv_det, 26),
                          PyMod(key_matrix[1][1] * inv_det, 26) >> >>,
                    0, <<>>)))

\* The two ValueErrors of hill_decrypt are told apart by their messages; they
\* are named as the error taxonomy names them.
hill_decrypt(t, key_matrix) ==
    LET det     == determinant(key_matrix)
        inv_det == mod_inverse(det, 26)
    IN  IF Falsy(inv_det) THEN Raise("NotInvertible")
        ELSE LET inv_matrix == adjugate_inverse(key_matrix, inv_det)
                 nums       == text_to_numbers(t)
             IN  IF PyMod(Len(nums), 2) # 0 THEN Raise("InvalidLength")
                 ELSE Ok(numbers_to_text(digraph_loop(nums, inv_matrix, 0, <<>>)))

---------------------------------------------------------------------------
(* crackers/hill_cracker.py *)

\* mutant of matrix_product: the factors are multiplied in the other order
matrix_product_swapped(C, inv_P) ==
    [i \in 1..2 |-> [j \in 1..2 |->
        PyMod(inv_P[i][1] * C[1][j] + inv_P[i][2] * C[2][j], 26)]]

\* step 8: K[i][j] = (C[i][0] * inv_P[0][j] + C[i][1] * inv_P[1][j]) % 26
matrix_product(C, inv_P) ==
    [i \in 1..2 |-> [j \in 1..2 |->
        PyMod(C[i][1] * inv_P[1][j] + C[i][2] * inv_P[2][j], 26)]]

\* mutant of digraph_columns: the last four letters are taken
digraph_columns_last(nums) ==
    LET n == Len(nums)
    IN  << <<nums[n - 3], nums[n - 1]>>, <<nums[n - 2], nums[n]>> >>

\* steps 3 and 4: the first four letters as a matrix, one digraph per column
digraph_columns(nums) == << <<nums[1], nums[3]>>, <<nums[2], nums[4]>> >>

\* mutant of hill_cracker: the parity of the letter count is checked before
\* the count itself
hill_cracker_parity_first(plaintext, ciphertext) ==
    LET p_nums == text_to_numbers(plaintext)
        c_nums == text_to_numbers(ciphertext)
    IN  IF Len(p_nums) # Len(c_nums) THEN Raise("LengthMismatch")
        ELSE IF PyMod(Len(p_nums), 2) # 0 THEN Raise("InvalidLength")
        ELSE IF Len(p_nums) < 4 THEN Raise("InsufficientData")
        ELSE LET P       == << <<p_nums[1], p_nums[3]>>, <<p_nums[2], p_nums[4]>> >>
                 C       == << <<c_nums[1], c_nums[3]>>, <<c_nums[2], c_nums[4]>> >>
                 det_p   == PyMod(P[1][1] * P[2][2] - P[1][2] * P[2][1], 26)
                 inv_det == mod_inverse(det_p, 26)
             IN  IF Falsy(inv_det) THEN Raise("NonInvertiblePlaintext")
                 ELSE Ok([i \in 1..2 |-> [j \in 1..2 |->
                        PyMod(C[i][1] * PyMod((IF j = 1 THEN P[2][2] ELSE -P[1][2]) * inv_det, 26)
                              + C[i][2] * PyMod((IF j = 1 THEN -P[2][1] ELSE P[1][1]) * inv_det, 26),
                              26)]])

hill_cracker(plaintext, ciphertext) ==
    LET p_nums == text_to_numbers(plaintext)
        c_nums == text_to_numbers(ciphertext)
    IN  IF Len(p_nums) # Len(c_nums) THEN Raise("LengthMismatch")
        ELSE IF Len(p_nums) < 4 THEN Raise("InsufficientData")
        ELSE IF PyMod(Len(p_nums), 2) # 0 THEN Raise("InvalidLength")
        ELSE LET P       == digraph_columns(p_nums)
                 C       == digraph_columns(c_nums)
                 det_p   == determinant(P)
                 inv_det == mod_inverse(det_p, 26)
             IN  IF Falsy(inv_det) THEN Raise("NonInvertiblePlaintext")
                 ELSE Ok(matrix_product(C, adjugate_inverse(P, inv_det)))

---------------------------------------------------------------------------
(* The inputs the calls are made with. *)

\* every sequence over S of length at most n
Seqs(S, n) == UNION {[1..k -> S] : k \in 0..n}

Matrices(E) == {<< <<a, b>>, <<c, d>> >> : a \in E, b \in E, c \in E, d \in E}

\* "HELLO" and [[3,3],[2,5]], "HELP", "ABC" and "XYZ": the documented examples
HELLO == <<72, 69, 76, 76, 79>>
HELP == <<72, 69, 76, 80>>
ABC == <<65, 66, 67>>
XYZ == <<88, 89, 90>>
ExampleKey == << <<3, 3>>, <<2, 5>> >>

\* hill_encrypt / hill_decrypt: texts over 'A', 'B', 'z' and ' ', keys with
\* entries below 0, in [0, 26) and above 25, of every kind of determinant
HillChars == {65, 66, 122, 32}
HillTexts == Seqs(HillChars, MaxLen) \cup {HELLO}
HillEntries == {-3, 0, 1, 2, 13, 26, 27}
HillKeys == Matrices(HillEntries) \cup {ExampleKey}

\* hill_cracker: plaintexts over 'A', 'b', 'N' and ' ', ciphertexts over 'X'
\* and 'y', each of at most 4 characters or of 4 characters and a tail
PlainChars == {65, 98, 78, 32}
CipherChars == {88, 121}
TailChars == {90}
TextsWithTail(S) ==
    Seqs(S, 4) \cup {h \o t : h \in [1..4 -> S], t \in Seqs(TailChars, MaxTail)}
\* calls with e-acute, which text_to_numbers keeps: as the first letter of the
\* ciphertext "e'XyX", and as the second letter of the plaintext "be'Ab"
AccentedCalls ==
    (TextsWithTail(PlainChars) \X {<<233, 88, 121, 88>>})
        \cup ({<<98, 233, 65, 98>>} \X TextsWithTail(CipherChars))
CrackerCalls ==
    (TextsWithTail(PlainChars) \X TextsWithTail(CipherChars))
        \cup {<<ABC, XYZ>>, <<HELP, XYZ>>}
        \cup AccentedCalls

\* the known-plaintext attack: a plaintext is encrypted under a key and
\* hill_cracker is given the plaintext and the ciphertext
AttackChars == {65, 98, 78}
AttackTexts == TextsWithTail(AttackChars) \cup {HELP, HELLO}
AttackEntries == {0, 1, 3, 14, 27}
AttackKeys == Matrices(AttackEntries) \cup {ExampleKey}

\* text_to_numbers: texts over 'A', 'z', ' ', '1' and e-acute, a letter for
\* str.isalpha() that is none of the 26 English letters
TextChars == {65, 122, 32, 49, 233}
CodecTexts == Seqs(TextChars, MaxLen)

---------------------------------------------------------------------------
(* The state machine. *)

NoText == <<>>
NoKey == << <<0, 0>>, <<0, 0>> >>

Init ==
    /\ op = "idle"
    /\ arg = 0
    /\ text = NoText
    /\ text2 = NoText
    /\ key = NoKey
    /\ out = Raise("none")

\* mod_inverse(a, 26), as hill_decrypt, hill_cracker and the affine cipher call it
CallModInverse ==
    /\ op = "idle"
    /\ \E a \in (-MaxAbsA)..MaxAbsA :
          /\ arg' = a
          /\ out' = Ok(mod_inverse(a, 26))
    /\ op' = "mod_inverse"
    /\ UNCHANGED <<text, text2, key>>

\* hill_encrypt(t, k) for t in T and k in K
CallHillEncrypt(T, K) ==
    /\ op = "idle"
    /\ \E t \in T, k \in K :
          /\ text' = t
          /\ key' = k
          /\ out' = hill_encrypt(t, k)
    /\ op' = "hill_encrypt"
    /\ UNCHANGED <<arg, text2>>

\* hill_decrypt(t, k)
CallHillDecrypt ==
    /\ op = "idle"
    /\ \E t \in HillTexts, k \in HillKeys :
          /\ text' = t
          /\ key' = k
          /\ out' = hill_decrypt(t, k)
    /\ op' = "hill_decrypt"
    /\ UNCHANGED <<arg, text2>>

\* the round trip: hill_decrypt of the ciphertext hill_encrypt returned, under
\* the same key
DecryptCiphertext ==
    /\ op = "hill_encrypt"
    /\ text2' = out.val
    /\ out' = hill_decrypt(out.val, key)
    /\ op' = "round_trip"
    /\ UNCHANGED <<arg, text, key>>

\* hill_cracker(p, c) on arbitrary texts
CallHillCracker ==
    /\ op = "idle"
    /\ \E call \in CrackerCalls :
          /\ text' = call[1]
          /\ text2' = call[2]
          /\ out' = hill_cracker(call[1], call[2])
    /\ op' = "hill_cracker"
    /\ UNCHANGED <<arg, key>>

\* the attack: hill_cracker of the plaintext and of the ciphertext
\* hill_encrypt returned for it
CrackCiphertext ==
    /\ op = "hill_encrypt"
    /\ text2' = out.val
    /\ out' = hill_cracker(text, out.val)
    /\ op' = "attack"
    /\ UNCHANGED <<arg, text, key>>

\* text_to_numbers(t)
CallTextToNumbers ==
    /\ op = "idle"
    /\ \E t \in CodecTexts :
          /\ text' = t
          /\ out' = Ok(text_to_numbers(t))
    /\ op' = "text_to_numbers"
    /\ UNCHANGED <<arg, text2, key>>

NextTextToNumbers == CallTextToNumbers
SpecTextToNumbers == Init /\ [][NextTextToNumbers]_vars

NextModInverse == CallModInverse
SpecModInverse == Init /\ [][NextModInverse]_vars

NextHill ==
    \/ CallHillEncrypt(HillTexts, HillKeys)
    \/ CallHillDecrypt
    \/ DecryptCiphertext
SpecHill == Init /\ [][NextHill]_vars

NextCracker == CallHillCracker
SpecCracker == Init /\ [][NextCracker]_vars

NextInverse ==
    \/ CallHillDecrypt
    \/ CallHillCracker
SpecInverse == Init /\ [][NextInverse]_vars

NextAttack ==
    \/ CallHillEncrypt(AttackTexts, AttackKeys)
    \/ CrackCiphertext
SpecAttack == Init /\ [][NextAttack]_vars

Next ==
    \/ CallModInverse
    \/ CallTextToNumbers
    \/ CallHillEncrypt(HillTexts \cup AttackTexts, HillKeys \cup AttackKeys)
    \/ CallHillDecrypt
    \/ DecryptCiphertext
    \/ CallHillCracker
    \/ CrackCiphertext
Spec == Init /\ [][Next]_vars

---------------------------------------------------------------------------
(* What the properties are stated with. *)

Abs(n) == IF n < 0 THEN -n ELSE n

\* the number of letters of a text: the characters text_to_numbers keeps
LetterCount(t) == Len(text_to_numbers(t))

\* every character is one of 'A'..'Z'
UppercaseLetters(t) == \A k \in 1..Len(t) : t[k] \in 65..90

\* every entry of the matrix lies in [0, 26)
ResidueEntries(m) == \A i \in 1..2, j \in 1..2 : m[i][j] \in 0..25

\* the matrix with every entry reduced into [0, 26)
Reduced(m) == [i \in 1..2 |-> [j \in 1..2 |-> m[i][j] % 26]]

\* gcd((a*d - b*c) mod 26, 26) = 1
Coprime26(m) == GCD((m[1][1] * m[2][2] - m[1][2] * m[2][1]) % 26, 26) = 1

\* the text hill_decrypt was called with
DecryptedText == IF op = "round_trip" THEN text2 ELSE text

---------------------------------------------------------------------------
(* C1: for every key with entries in [0, 26) whose determinant is coprime   *)
(* with 26 and every text of uppercase letters only with an even number of *)
(* letters, hill_decrypt of hill_encrypt's output under the same key       *)
(* returns exactly the text.                                               *)
RoundTrip ==
    (/\ op = "round_trip"
     /\ ResidueEntries(key)
     /\ Coprime26(key)
     /\ UppercaseLetters(text)
     /\ Len(text) % 2 = 0)
    => out = Ok(text)

\* a round trip of a 2-letter text under a key with all four entries non-zero
RoundTripWitness ==
    /\ op = "round_trip"
    /\ ResidueEntries(key)
    /\ Coprime26(key)
    /\ \A i \in 1..2, j \in 1..2 : key[i][j] # 0
    /\ text = <<66, 65>>
    /\ out = Ok(text)

---------------------------------------------------------------------------
(* C3: for every integer a, mod_inverse(a, 26) is the smallest i in [1, 26) *)
(* with (a * i) mod 26 = 1 when gcd(a, 26) = 1 and None for every other a; *)
(* it is never 0, so `not inv_det` is true exactly when a has no inverse.  *)
ModInverseContract ==
    op = "mod_inverse" =>
        LET a == arg
            r == out.val
        IN  /\ out.kind = "ok"
            /\ GCD(Abs(a), 26) = 1 =>
                  /\ r \in 1..25
                  /\ (a * r) % 26 = 1
                  /\ \A i \in 1..(r - 1) : (a * i) % 26 # 1
            /\ GCD(Abs(a), 26) # 1 => r = None
            /\ r # 0
            /\ Falsy(r) <=> ~ \E i \in 0..25 : (a * i) % 26 = 1

\* a negative a beyond -26 whose inverse is the last candidate, 25
ModInverseWitness ==
    /\ op = "mod_inverse"
    /\ arg < -26
    /\ out.val = 25

---------------------------------------------------------------------------
(* C4: for every integer key and every text, hill_decrypt raises no         *)
(* NotInvertible exactly when gcd((a*d - b*c) mod 26, 26) = 1.              *)
DeterminantInvariant ==
    op \in {"hill_decrypt", "round_trip"} =>
        (out.kind # "NotInvertible" <=> Coprime26(key))

\* a multiple of 13 as determinant, from entries outside [0, 26): refused
DeterminantWitness ==
    /\ op = "hill_decrypt"
    /\ ~ ResidueEntries(key)
    /\ (key[1][1] * key[2][2] - key[1][2] * key[2][1]) % 26 = 13
    /\ out.kind = "NotInvertible"

---------------------------------------------------------------------------
(* C6: hill_decrypt checks the key before the text: a key that is not       *)
(* invertible mod 26 gives NotInvertible whatever the text; an invertible  *)
(* key gives InvalidLength exactly when the letter count is odd; an error  *)
(* comes with no plaintext.                                                *)
DecryptErrorOrder ==
    op \in {"hill_decrypt", "round_trip"} =>
        /\ ~ Coprime26(key) => out = Raise("NotInvertible")
        /\ Coprime26(key) =>
              /\ out.kind \in {"ok", "InvalidLength"}
              /\ out.kind = "InvalidLength" <=> LetterCount(DecryptedText) % 2 = 1
        /\ out.kind # "ok" => out.val = <<>>
        /\ out.kind = "ok" => Len(out.val) = LetterCount(DecryptedText)

\* an odd letter count under a key that is not invertible: NotInvertible
DecryptErrorOrderWitness ==
    /\ op = "hill_decrypt"
    /\ ~ Coprime26(key)
    /\ LetterCount(text) = 3
    /\ out = Raise("NotInvertible")

---------------------------------------------------------------------------
(* C7: hill_encrypt of a text with n letters has n letters when n is even   *)
(* and n + 1 when n is odd, the odd case being the encryption of the same  *)
(* text followed by 'X'; no letters give the empty string; output digraph  *)
(* k is key_matrix times input digraph k mod 26.                           *)
EncryptPadding ==
    op = "hill_encrypt" =>
        LET nums   == text_to_numbers(text)
            n      == Len(nums)
            padded == IF n % 2 = 1 THEN nums \o <<23>> ELSE nums
        IN  /\ out.kind = "ok"
            /\ Len(out.val) = IF n % 2 = 0 THEN n ELSE n + 1
            /\ n % 2 = 1 => out = hill_encrypt(text \o <<88>>, key)
            /\ n = 0 => out.val = <<>>
            /\ \A k \in 1..(Len(padded) \div 2) :
                  /\ out.val[2 * k - 1] - 65 =
                        (key[1][1] * padded[2 * k - 1] + key[1][2] * padded[2 * k]) % 26
                  /\ out.val[2 * k] - 65 =
                        (key[2][1] * padded[2 * k - 1] + key[2][2] * padded[2 * k]) % 26

\* "HELLO" under [[3,3],[2,5]]: six letters, the last digraph being that of "OX"
EncryptPaddingWitness ==
    /\ op = "hill_encrypt"
    /\ text = HELLO
    /\ key = ExampleKey
    /\ Len(out.val) = 6
    /\ <<out.val[5] - 65, out.val[6] - 65>> =
          <<(3 * 14 + 3 * 23) % 26, (2 * 14 + 5 * 23) % 26>>

---------------------------------------------------------------------------
(* C10: for every key of arbitrary integers and every text, hill_encrypt    *)
(* and hill_decrypt give the same outcome as under the key with every      *)
(* entry reduced into [0, 26).                                             *)
KeyNormalized ==
    /\ op = "hill_encrypt" => out = hill_encrypt(text, Reduced(key))
    /\ op \in {"hill_decrypt", "round_trip"} =>
          out = hill_decrypt(DecryptedText, Reduced(key))

\* a successful decryption of two letters under a key with a negative entry
\* and an entry above 25
KeyNormalizedWitness ==
    /\ op = "hill_decrypt"
    /\ \E i \in 1..2, j \in 1..2 : key[i][j] < 0
    /\ \E i \in 1..2, j \in 1..2 : key[i][j] > 25
    /\ out.kind = "ok"
    /\ Len(out.val) = 2

---------------------------------------------------------------------------
(* C5: hill_cracker reports the first failing precondition, in this order:  *)
(* LengthMismatch when the letter counts differ, else InsufficientData     *)
(* when the count is below 4, else InvalidLength when it is odd; "ABC" and *)
(* "XYZ" give InsufficientData.                                            *)
CrackerPreconditionOrder ==
    op = "hill_cracker" =>
        LET np == LetterCount(text)
            nc == LetterCount(text2)
            lengthErrors == {"LengthMismatch", "InsufficientData", "InvalidLength"}
        IN  /\ IF np # nc THEN out = Raise("LengthMismatch")
               ELSE IF np < 4 THEN out = Raise("InsufficientData")
               ELSE IF np % 2 = 1 THEN out = Raise("InvalidLength")
               ELSE out.kind \notin lengthErrors
            /\ (text = ABC /\ text2 = XYZ) => out = Raise("InsufficientData")

\* hill_cracker("ABC", "XYZ")
CrackerPreconditionWitness ==
    /\ op = "hill_cracker"
    /\ text = ABC
    /\ text2 = XYZ
    /\ out = Raise("InsufficientData")

---------------------------------------------------------------------------
(* C8: when the letter counts are equal, at least 4 and even, hill_cracker  *)
(* raises NonInvertiblePlaintext exactly when (p0*p3 - p2*p1) mod 26 is    *)
(* not coprime with 26, and otherwise returns a 2x2 matrix; an error comes *)
(* with no matrix.                                                         *)
PlaintextDeterminant ==
    (/\ op = "hill_cracker"
     /\ LetterCount(text) = LetterCount(text2)
     /\ LetterCount(text) >= 4
     /\ LetterCount(text) % 2 = 0)
    => LET p   == text_to_numbers(text)
           det == (p[1] * p[4] - p[3] * p[2]) % 26
       IN  /\ out.kind = "NonInvertiblePlaintext" <=> GCD(det, 26) # 1
           /\ GCD(det, 26) = 1 =>
                 /\ out.kind = "ok"
                 /\ DOMAIN out.val = 1..2
                 /\ \A i \in 1..2 : DOMAIN out.val[i] = 1..2
           /\ out.kind # "ok" => out.val = <<>>

\* a plaintext matrix whose determinant is 13: NonInvertiblePlaintext
PlaintextDeterminantWitness ==
    /\ op = "hill_cracker"
    /\ LetterCount(text) = 4
    /\ LetterCount(text2) = 4
    /\ LET p == text_to_numbers(text)
       IN  (p[1] * p[4] - p[3] * p[2]) % 26 = 13
    /\ out = Raise("NonInvertiblePlaintext")

---------------------------------------------------------------------------
(* C9: hill_cracker uses the first two digraphs only: every call that       *)
(* passes the length preconditions with the same first four plaintext      *)
(* letters and the same first four ciphertext letters has the same         *)
(* outcome, whatever letters follow.                                       *)
OtherTails == Seqs({65, 90}, MaxTail)

PassesLengthChecks(r) == r.kind \in {"ok", "NonInvertiblePlaintext"}

OnlyFirstTwoDigraphs ==
    (op = "hill_cracker" /\ PassesLengthChecks(out)) =>
        LET p4 == numbers_to_text(SubSeq(text_to_numbers(text), 1, 4))
            c4 == numbers_to_text(SubSeq(text_to_numbers(text2), 1, 4))
        IN  \A tp \in OtherTails, tc \in OtherTails :
                LET other == hill_cracker(p4 \o tp, c4 \o tc)
                IN  PassesLengthChecks(other) => other = out

\* a key recovered from texts of six letters
OnlyFirstTwoDigraphsWitness ==
    /\ op = "hill_cracker"
    /\ LetterCount(text) = 6
    /\ LetterCount(text2) = 6
    /\ out.kind = "ok"

---------------------------------------------------------------------------
(* C2: for any invertible key K, any plaintext P with at least 4 letters    *)
(* and C = hill_encrypt(P, K), hill_cracker(P, C) returns exactly K        *)
(* whenever the matrix of the first two plaintext digraphs is invertible   *)
(* mod 26.  This is the claim as made; it fails for a plaintext with an    *)
(* odd number of letters, whose ciphertext is one letter longer, and for a *)
(* key with an entry outside [0, 26), which is recovered reduced.          *)
FirstDigraphsInvertible(t) ==
    LET p == text_to_numbers(t)
    IN  GCD((p[1] * p[4] - p[3] * p[2]) % 26, 26) = 1

CrackerRecoversKey ==
    (/\ op = "attack"
     /\ Coprime26(key)
     /\ LetterCount(text) >= 4
     /\ FirstDigraphsInvertible(text))
    => out = Ok(key)

(* C2, amended: for any invertible key K with entries in [0, 26), any       *)
(* plaintext P with an even number of letters, at least 4, and             *)
(* C = hill_encrypt(P, K), hill_cracker(P, C) returns exactly K whenever   *)
(* the matrix of the first two plaintext digraphs is invertible mod 26.    *)
CrackerRecoversResidueKey ==
    (/\ op = "attack"
     /\ ResidueEntries(key)
     /\ Coprime26(key)
     /\ LetterCount(text) >= 4
     /\ LetterCount(text) % 2 = 0
     /\ FirstDigraphsInvertible(text))
    => out = Ok(key)

\* "HELP" encrypted under [[3,3],[2,5]]: the key is recovered
CrackerRecoversKeyWitness ==
    /\ op = "attack"
    /\ text = HELP
    /\ key = ExampleKey
    /\ out = Ok(ExampleKey)

---------------------------------------------------------------------------
(* C11: the inverse matrix computed in hill_decrypt and in hill_cracker is  *)
(* inv_det * [[d,-b],[-c,a]] reduced mod 26 with every entry in [0, 26),   *)
(* and its product with the original matrix is the identity mod 26, for    *)
(* every matrix whose determinant is coprime with 26.                      *)

\* the call inverts a matrix: hill_decrypt always, hill_cracker past its
\* length checks
InvertsMatrix ==
    \/ op = "hill_decrypt"
    \/ op = "hill_cracker" /\ PassesLengthChecks(out)

\* the matrix the call inverts: the key, or the first two plaintext digraphs
InvertedMatrix ==
    IF op = "hill_decrypt" THEN key ELSE digraph_columns(text_to_numbers(text))

\* the inverse as the call computes it (inv_matrix, inv_P)
ComputedInverse ==
    adjugate_inverse(InvertedMatrix,
                     mod_inverse(determinant(InvertedMatrix), 26))

Identity == << <<1, 0>>, <<0, 1>> >>

\* the product of two matrices, every entry mod 26
ProductMod26(A, B) ==
    [i \in 1..2 |-> [j \in 1..2 |->
        (A[i][1] * B[1][j] + A[i][2] * B[2][j]) % 26]]

InverseMatrix ==
    (InvertsMatrix /\ Coprime26(InvertedMatrix)) =>
        LET m   == InvertedMatrix
            inv == ComputedInverse
            det == (m[1][1] * m[2][2] - m[1][2] * m[2][1]) % 26
            i   == CHOOSE x \in 1..25 : (det * x) % 26 = 1
        IN  /\ \A r \in 1..2, c \in 1..2 : inv[r][c] \in 0..25
            /\ inv = << << (i * m[2][2]) % 26,    (i * (-m[1][2])) % 26 >>,
                        << (i * (-m[2][1])) % 26, (i * m[1][1]) % 26 >> >>
            /\ ProductMod26(m, inv) = Identity
            /\ ProductMod26(inv, m) = Identity
            \* and it is the matrix the outcome was computed with
            /\ (op = "hill_decrypt" /\ out.kind = "ok") =>
                  out.val = numbers_to_text(
                                digraph_loop(text_to_numbers(text), inv, 0, <<>>))
            /\ op = "hill_cracker" =>
                  out = Ok(ProductMod26(digraph_columns(text_to_numbers(text2)), inv))

\* a key of residues with both off-diagonal entries positive, so that both
\* negated entries are negative before the reduction, and a text decrypted
InverseMatrixWitness ==
    /\ op = "hill_decrypt"
    /\ ResidueEntries(key)
    /\ key[1][2] > 0
    /\ key[2][1] > 0
    /\ Coprime26(key)
    /\ out.kind = "ok"
    /\ Len(out.val) = 2

---------------------------------------------------------------------------
(* C12: text_to_numbers returns one value per kept character, in order, and *)
(* every value is a residue in [0, 26): every character that is not one of *)
(* the 26 English letters, in either case, is discarded, also a letter     *)
(* outside A-Z that str.isalpha() accepts.                                 *)
EnglishLetter(c) == c \in 65..90 \/ c \in 97..122

\* the 0-based place of an English letter in the alphabet
AlphabetPlace(c) == IF c \in 97..122 THEN c - 97 ELSE c - 65

TextToNumbersResidues ==
    op = "text_to_numbers" =>
        LET kept == SelectSeq(text, EnglishLetter)
        IN  /\ out.kind = "ok"
            /\ Len(out.val) = Len(kept)
            /\ \A k \in 1..Len(out.val) : out.val[k] \in 0..25
            /\ \A k \in 1..Len(kept) : out.val[k] = AlphabetPlace(kept[k])

\* what text_to_numbers does keep to: the claim with str.isalpha() as the test
\* of a letter and ord(upper case) - 65 as its value
TextToNumbersKeepsAlphabetic ==
    op = "text_to_numbers" =>
        LET kept == SelectSeq(text, str_isalpha)
        IN  /\ out.kind = "ok"
            /\ Len(out.val) = Len(kept)
            /\ \A k \in 1..Len(kept) :
                  /\ EnglishLetter(kept[k]) => out.val[k] = AlphabetPlace(kept[k])
                  /\ ~ EnglishLetter(kept[k]) => out.val[k] \notin 0..25

---------------------------------------------------------------------------
(* C13: whenever hill_cracker returns a key K, whatever the ciphertext      *)
(* letters are, every entry of K lies in [0, 26) and K maps each of the    *)
(* first two plaintext digraphs to the ciphertext digraph of the same      *)
(* place: hill_encrypt of the first four plaintext letters under K is the  *)
(* first four ciphertext letters.                                          *)

\* the letters of a text, in upper case: the characters text_to_numbers keeps
Letters(t) ==
    SelectSeq([k \in 1..Len(t) |-> str_upper(t[k])], str_isalpha)

FirstFour(t) == SubSeq(Letters(t), 1, 4)

RecoveredKeyMapsDigraphs ==
    (op = "hill_cracker" /\ out.kind = "ok") =>
        LET K == out.val
            p == text_to_numbers(text)
            c == text_to_numbers(text2)
        IN  /\ \A i \in 1..2, j \in 1..2 : K[i][j] \in 0..25
            /\ \A d \in 1..2 :
                  /\ (K[1][1] * p[2 * d - 1] + K[1][2] * p[2 * d]) % 26 = c[2 * d - 1]
                  /\ (K[2][1] * p[2 * d - 1] + K[2][2] * p[2 * d]) % 26 = c[2 * d]
            /\ hill_encrypt(FirstFour(text), K) = Ok(FirstFour(text2))

\* the same, for a ciphertext whose first four letters are English letters
RecoveredKeyMapsEnglishDigraphs ==
    (/\ op = "hill_cracker"
     /\ out.kind = "ok"
     /\ \A k \in 1..4 : EnglishLetter(FirstFour(text2)[k]))
    => RecoveredKeyMapsDigraphs

=============================================================================
